---- MODULE Spec2Model ----
(***************************************************************************)
(* Himawari (src/himawari.py): three watcher processes translate external  *)
(* notifications into events on a multiprocessing queue; run() pops the    *)
(* events one at a time and calls the event handler, which owns is_tablet  *)
(* and issues xinput / xrandr / xsetwacom / onboard actions.               *)
(***************************************************************************)
EXTENDS Integers, Sequences, FiniteSets, TLC

\* ------------------------------------------------------------------ bounds
\* Notifications the three sources deliver in one run of the whole program,
\* together: records of the acpid stream, PropertiesChanged signals and
\* lines of the proximity stream.
MaxInputs == 3
\* Records of the acpid byte streams enumerated for the socket watcher alone.
MaxRecords == 2
MaxFed == 3
MaxToggles == 4

\* -------------------------------------------------------- program constants
\* socket.recv(4096): the most bytes one recv() returns.
RecvBufSize == 4096

\* b"\n"
NL == 10

\* EV_TABLET_MODE = b" 40D1BF71-A82D-4E", as byte values.
EV_TABLET_MODE ==
    <<32, 52, 48, 68, 49, 66, 70, 55, 49, 45, 65, 56, 50, 68, 45, 52, 69>>

xrandr_orientation_map ==
    ("right-up" :> "right") @@ ("normal" :> "normal") @@
    ("bottom-up" :> "inverted") @@ ("left-up" :> "left")

\* A stylus table with cw and ccw exchanged.
wacom_orientation_swapped ==
    ("right-up" :> "ccw") @@ ("normal" :> "none") @@
    ("bottom-up" :> "half") @@ ("left-up" :> "cw")

wacom_orientation_map ==
    ("right-up" :> "cw") @@ ("normal" :> "none") @@
    ("bottom-up" :> "half") @@ ("left-up" :> "ccw")

\* The names run() gives the three watcher processes, in spawn order.
WatcherNames ==
    <<"acpi_events_watcher", "dbus_events_watcher", "stylus_events_watcher">>

Watchers == {WatcherNames[i] : i \in 1..Len(WatcherNames)}

VARIABLES
    dpc,            \* where run() is: construct, spawn, loop, dead, startup_failed
    spawned,        \* how many of the three spawn_process calls run() has made
    is_tablet,      \* BasicEventHandler.is_tablet
    wacom,          \* DefaultEventHandler.wacom: the xsetwacom device names
    devices,        \* the xinput names resolved by initialize(), by role
    onboard,        \* DefaultEventHandler.onboard: 0 = attribute never set, n = n-th Popen
    launched,       \* how many onboard processes Popen has started
    message_queue,  \* the events in the multiprocessing.Queue, oldest first
    wpc,            \* each watcher process: unborn, setup, loop, spin, returned, exited
    pushed,         \* per watcher: how many message_queue.put calls it has made
    stream,         \* the bytes the acpid socket delivers before it falls silent
    spos,           \* how many of them recv() has returned
    buffer,         \* SocketWrapper.buffer
    signals,        \* PropertiesChanged notifications delivered so far
    lines,          \* proximity-stream lines delivered so far
    popped,         \* history: the events run() has popped, in order
    effects         \* history: the handler's and run()'s actions, in order

vars == <<dpc, spawned, is_tablet, wacom, devices, onboard, launched,
          message_queue, wpc, pushed, stream, spos, buffer, signals, lines,
          popped, effects>>

handlerVars == <<is_tablet, wacom, devices, onboard, launched>>
acpiVars == <<stream, spos, buffer>>
histVars == <<popped, effects>>

\* ----------------------------------------------------------------- helpers
Min(a, b) == IF a < b THEN a ELSE b

\* bytes.startswith
StartsWith(s, p) == Len(s) >= Len(p) /\ SubSeq(s, 1, Len(p)) = p

\* b'\n' in s
HasNL(s) == \E i \in 1..Len(s) : s[i] = NL

\* index of the first b'\n' of s (s holds one)
FirstNL(s) == CHOOSE i \in 1..Len(s) : s[i] = NL /\ \A j \in 1..(i - 1) : s[j] # NL

\* ------------------------------------------------------------------ events
\* An event is the tuple (tag, args) that a process puts on message_queue.
\* src and seq are history fields: the putting process and the number of
\* that put among the process's own puts.
Event(tag, args, src, seq) == [tag |-> tag, args |-> args, src |-> src, seq |-> seq]

\* sys.exc_info(): the (type, value, traceback) triple of the exception
\* being handled.
ExcInfo == "exc_info"

\* A traceback object cannot be pickled; every other value the watchers put
\* on the queue (str, bytes, list, tuple) can.
Picklable(ev) == \A i \in 1..Len(ev.args) : ev.args[i] # ExcInfo

\* A put that adds at the front of the queue.
QueuePutFront(q, ev) == IF Picklable(ev) THEN <<ev>> \o q ELSE q

\* message_queue.put(obj) on a multiprocessing.Queue: put() itself only
\* appends obj to the process's buffer and returns; the queue's feeder thread
\* pickles obj and writes it to the pipe, and an obj that fails to pickle is
\* reported on stderr and never written.
QueuePut(q, ev) == IF Picklable(ev) THEN Append(q, ev) ELSE q

\* message_queue.get(): the oldest event of the pipe.
QueueGet(q) == Head(q)

\* ----------------------------------------------------------------- handler
\* One action of the handler (or of run()) on the outside world.
\*   cmd: the program run or the call made (logger.debug, logger.warn and
\*   logger.info are the calls of those logger methods, whatever the logger's
\*   level lets through); dev: the device named; val: the value or message
\*   passed; pid: the process signalled or started (0 when none).
Eff(cmd, dev, val, pid) == [cmd |-> cmd, dev |-> dev, val |-> val, pid |-> pid]

\* The result of one handler call: the actions it made, whether it raised,
\* and the handler fields after it.
Result(eff, raised, tab, onb, lau) ==
    [eff |-> eff, raised |-> raised, is_tablet |-> tab, onboard |-> onb,
     launched |-> lau]

\* subprocess.call for each of a list of actions, in order; call number
\* fail + 1 raises OSError (fail >= Len(calls): none raises). A call that
\* returns a non-zero status returns like any other: the status is dropped.
Calls(calls, fail) == SubSeq(calls, 1, Min(fail, Len(calls)))

\* DefaultEventHandler.on_tablet_mode
on_tablet_mode(fail, launchOk) ==
    LET calls == <<Eff("xinput-disable", devices.trackpoint, "", 0),
                   Eff("xinput-disable", devices.touchpad, "", 0)>>
        log == <<Eff("logger.debug", "", "on tablet mode", 0)>>
    IN  IF fail < Len(calls)
        THEN Result(log \o Calls(calls, fail), TRUE, is_tablet, onboard, launched)
        ELSE IF launchOk
        THEN Result(log \o calls \o <<Eff("onboard-start", "", "", launched + 1)>>,
                    FALSE, is_tablet, launched + 1, launched + 1)
        ELSE Result(log \o calls \o <<Eff("logger.warn", "", "exception while starting onboard", 0)>>,
                    FALSE, is_tablet, onboard, launched)

\* DefaultEventHandler.on_laptop_mode
on_laptop_mode(fail, killOk) ==
    LET calls == <<Eff("xinput-enable", devices.trackpoint, "", 0),
                   Eff("xinput-enable", devices.touchpad, "", 0)>>
        log == <<Eff("logger.debug", "", "on laptop mode", 0)>>
    IN  IF fail < Len(calls)
        THEN Result(log \o Calls(calls, fail), TRUE, is_tablet, onboard, launched)
        ELSE IF onboard # 0 /\ killOk
        THEN Result(log \o calls \o <<Eff("onboard-kill", "", "SIGTERM", onboard)>>,
                    FALSE, is_tablet, onboard, launched)
        ELSE Result(log \o calls \o <<Eff("logger.warn", "", "exception while terminating onboard", 0)>>,
                    FALSE, is_tablet, onboard, launched)

\* An on_mode_change that calls the method of the mode it leaves.
FlipThenOld(fail, ok) ==
    LET r == IF is_tablet THEN on_tablet_mode(fail, ok) ELSE on_laptop_mode(fail, ok)
    IN  [r EXCEPT !.is_tablet = ~is_tablet]

\* An on_mode_change that sets the tablet mode instead of toggling it.
SetThenTablet(fail, ok) ==
    [on_tablet_mode(fail, ok) EXCEPT !.is_tablet = TRUE]

\* BasicEventHandler.on_mode_change
on_mode_change(fail, ok) ==
    LET flipped == ~is_tablet
        r == IF flipped THEN on_tablet_mode(fail, ok) ELSE on_laptop_mode(fail, ok)
    IN  [r EXCEPT !.is_tablet = flipped]

\* DefaultEventHandler.on_rotate
on_rotate(orientation, fail) ==
    LET log == <<Eff("logger.debug", "", "on rotate", 0)>>
    IN  IF orientation \notin DOMAIN xrandr_orientation_map
        THEN Result(log, TRUE, is_tablet, onboard, launched)   \* KeyError
        ELSE LET calls ==
                     <<Eff("xrandr", "", xrandr_orientation_map[orientation], 0)>> \o
                     [i \in 1..Len(wacom) |->
                         Eff("xsetwacom", wacom[i], wacom_orientation_map[orientation], 0)]
             IN  Result(log \o Calls(calls, fail), fail < Len(calls),
                        is_tablet, onboard, launched)

\* An on_stylus_event that takes the pen coming near as entering tablet mode.
StylusSetsTablet(status) ==
    Result(<<Eff("logger.debug", "", status, 0)>>, FALSE,
           IF status = "in" THEN TRUE ELSE is_tablet, onboard, launched)

\* DefaultEventHandler.on_stylus_event
on_stylus_event(status) ==
    Result(<<Eff("logger.debug", "", status, 0)>>, FALSE, is_tablet, onboard, launched)

\* --------------------------------------------------------- the environment
\* What `xsetwacom --list devices` and `xinput --list --name-only` print when
\* the handler is built: the xsetwacom device names, and the xinput names,
\* each with the substrings initialize() looks for that it holds.
Dev(name, has) == [name |-> name, has |-> has]

XinputFull ==
    <<Dev("Wacom Pen stylus", {"stylus"}),
      Dev("Wacom Finger touch", {"Finger touch"}),
      Dev("TPPS/2 IBM TrackPoint", {"TrackPoint"}),
      Dev("SynPS/2 Synaptics TouchPad", {"TouchPad"})>>

Without(xs, k) == [i \in 1..(Len(xs) - 1) |-> IF i < k THEN xs[i] ELSE xs[i + 1]]

XinputLists == {XinputFull} \cup {Without(XinputFull, k) : k \in 1..Len(XinputFull)}

WacomLists == {<<>>, <<"Wacom Pen stylus", "Wacom Pen eraser">>}

\* The byte streams of the acpid socket: up to MaxRecords newline-terminated
\* records, then possibly an unterminated tail.
SampleRecords ==
    { EV_TABLET_MODE \o <<NL>>,                             \* the prefix alone
      EV_TABLET_MODE \o <<48, 48, NL>>,                     \* the prefix and more
      SubSeq(EV_TABLET_MODE, 1, Len(EV_TABLET_MODE) - 1) \o <<NL>>,  \* a cut prefix
      <<48>> \o EV_TABLET_MODE \o <<NL>>,                   \* the prefix, not first
      <<NL>> }                                              \* an empty record

SampleTails == { <<>>, EV_TABLET_MODE }

RECURSIVE RecordSeqs(_)
RecordSeqs(n) ==
    IF n = 0 THEN {<<>>}
    ELSE RecordSeqs(n - 1) \cup
         {r \o s : r \in SampleRecords, s \in RecordSeqs(n - 1)}

SockStreams == {s \o t : s \in RecordSeqs(MaxRecords), t \in SampleTails}

\* The streams of the whole-program specification: k mode-toggle records.
RECURSIVE Toggles(_)
Toggles(k) == IF k = 0 THEN <<>> ELSE EV_TABLET_MODE \o <<NL>> \o Toggles(k - 1)

MainStreams == {Toggles(k) : k \in 0..MaxInputs}

\* The records of byte stream s: its b'\n' bytes.
RecordsIn(s) == Cardinality({i \in 1..Len(s) : s[i] = NL})

\* The recv() lengths of the whole-program specification: a read that ends
\* inside the prefix of the next record, and one that takes all there is.
MainChunkLens == {Len(EV_TABLET_MODE) + 2, RecvBufSize}

\* The changedProperties dictionaries of the PropertiesChanged signal.
OrientationValues == {"normal", "right-up", "bottom-up", "left-up", "undefined"}

PropertyChanges ==
    {("AccelerometerOrientation" :> o) : o \in OrientationValues} \cup
    {("HasAccelerometer" :> "true")}

\* Those of the whole-program specification: a rotation, a value outside the
\* tables, and a change of another property.
MainPropertyChanges ==
    {("AccelerometerOrientation" :> "left-up"),
     ("AccelerometerOrientation" :> "undefined"),
     ("HasAccelerometer" :> "true")}

\* Lines of `xinput test -proximity`: whether the line starts with
\* b'proximity', and line.split(b' ').
Line(prox, fields) == [prox |-> prox, fields |-> fields]

ProximityLines ==
    { Line(TRUE, <<"proximity", "in", "", "a[0]=1">>),
      Line(TRUE, <<"proximity", "out", "a[0]=1">>),
      Line(FALSE, <<"motion", "a[0]=1">>),
      Line(TRUE, <<"proximity">>) }

\* ------------------------------------------------------------------- run()
\* next(filter(lambda x: sub in x, xinput)): the first name holding sub;
\* StopIteration when there is none.
Resolves(xs, sub) == \E i \in 1..Len(xs) : sub \in xs[i].has

FirstWith(xs, sub) ==
    xs[CHOOSE i \in 1..Len(xs) :
          sub \in xs[i].has /\ \A j \in 1..(i - 1) : sub \notin xs[j].has].name

Roles == <<"stylus", "Finger touch", "TrackPoint", "TouchPad">>

NoDevices == [stylus |-> "", finger_touch |-> "", trackpoint |-> "", touchpad |-> ""]

\* self.stylus, self.finger_touch, self.trackpoint, self.touchpad
ResolvedDevices(xs) ==
    [stylus |-> FirstWith(xs, "stylus"),
     finger_touch |-> FirstWith(xs, "Finger touch"),
     trackpoint |-> FirstWith(xs, "TrackPoint"),
     touchpad |-> FirstWith(xs, "TouchPad")]

\* An initialize() whose look-ups fall back to nothing (next(..., None)): a
\* role that is not resolved raises nothing and run() goes on to the spawns.
ConstructLenient ==
    /\ dpc = "construct"
    /\ \E ws \in WacomLists, xs \in XinputLists :
          IF \A i \in 1..Len(Roles) : Resolves(xs, Roles[i])
          THEN /\ wacom' = ws
               /\ devices' = ResolvedDevices(xs)
          ELSE UNCHANGED <<wacom, devices>>
    /\ dpc' = "spawn"
    /\ is_tablet' = FALSE
    /\ UNCHANGED <<spawned, onboard, launched, message_queue, wpc, pushed,
                   acpiVars, signals, lines, histVars>>

\* handler = handler_type(logger): BasicEventHandler.__init__ calls
\* DefaultEventHandler.initialize, then sets is_tablet = False. An unresolved
\* role raises out of run() before any watcher is spawned.
Construct ==
    /\ dpc = "construct"
    /\ \E ws \in WacomLists, xs \in XinputLists :
          IF \A i \in 1..Len(Roles) : Resolves(xs, Roles[i])
          THEN /\ wacom' = ws
               /\ devices' = ResolvedDevices(xs)
               /\ dpc' = "spawn"
          ELSE /\ dpc' = "startup_failed"
               /\ UNCHANGED <<wacom, devices>>
    /\ is_tablet' = FALSE
    /\ UNCHANGED <<spawned, onboard, launched, message_queue, wpc, pushed,
                   acpiVars, signals, lines, histVars>>

\* A run() that starts a watcher again once it has ended with an exception.
SpawnAgain ==
    \/ /\ dpc = "spawn"
       /\ spawned < Len(WatcherNames)
       /\ spawned' = spawned + 1
       /\ wpc' = [wpc EXCEPT ![WatcherNames[spawned + 1]] = "setup"]
       /\ dpc' = IF spawned + 1 = Len(WatcherNames) THEN "loop" ELSE "spawn"
       /\ UNCHANGED <<handlerVars, message_queue, pushed, acpiVars, signals, lines,
                      histVars>>
    \/ /\ dpc = "loop"
       /\ \E w \in Watchers :
             /\ wpc[w] = "exited"
             /\ wpc' = [wpc EXCEPT ![w] = "setup"]
       /\ UNCHANGED <<dpc, spawned, handlerVars, message_queue, pushed, acpiVars,
                      signals, lines, histVars>>

\* spawn_process(name, target): the three calls of run(), in order. The
\* child starts process_wrapper, which calls the watcher.
Spawn ==
    /\ dpc = "spawn"
    /\ spawned < Len(WatcherNames)
    /\ spawned' = spawned + 1
    /\ wpc' = [wpc EXCEPT ![WatcherNames[spawned + 1]] = "setup"]
    /\ dpc' = IF spawned + 1 = Len(WatcherNames) THEN "loop" ELSE "spawn"
    /\ UNCHANGED <<handlerVars, message_queue, pushed, acpiVars, signals, lines,
                   histVars>>

\* A loop body whose test for 'exit' does not end the chain of tests: the
\* exit event is logged and then handled as a mode-change.
HandleExitFallsThrough(ev, failAt, ok) ==
    CASE ev.tag = "exit" ->
           LET r == on_mode_change(failAt, ok)
           IN  Result(<<Eff("logger.info", ev.args[1], ev.args[2], 0)>> \o r.eff,
                      r.raised, r.is_tablet, r.onboard, r.launched)
      [] ev.tag = "mode-change" -> on_mode_change(failAt, ok)
      [] ev.tag = "rotate" -> on_rotate(ev.args[1], failAt)
      [] ev.tag = "stylus-event" -> on_stylus_event(ev.args[1])

\* A loop body that reports a watcher's exit once: an 'exit' event popped
\* right after one with the same name is dropped without a log entry.
HandleExitOnce(ev, failAt, ok) ==
    CASE ev.tag = "exit" ->
           Result(IF /\ popped # <<>>
                     /\ popped[Len(popped)].tag = "exit"
                     /\ popped[Len(popped)].args[1] = ev.args[1]
                  THEN <<>>
                  ELSE <<Eff("logger.info", ev.args[1], ev.args[2], 0)>>,
                  FALSE, is_tablet, onboard, launched)
      [] ev.tag = "mode-change" -> on_mode_change(failAt, ok)
      [] ev.tag = "rotate" -> on_rotate(ev.args[1], failAt)
      [] ev.tag = "stylus-event" -> on_stylus_event(ev.args[1])

\* A loop body whose tests are `if` after `if`, not `elif`: a 'rotate' event
\* handled by on_rotate goes on to the stylus branch as well.
HandleRotateTwice(ev, failAt, ok) ==
    CASE ev.tag = "exit" ->
           Result(<<Eff("logger.info", ev.args[1], ev.args[2], 0)>>, FALSE,
                  is_tablet, onboard, launched)
      [] ev.tag = "mode-change" -> on_mode_change(failAt, ok)
      [] ev.tag = "rotate" ->
           LET r == on_rotate(ev.args[1], failAt)
           IN  IF r.raised THEN r
               ELSE [r EXCEPT !.eff = @ \o on_stylus_event(ev.args[1]).eff]
      [] ev.tag = "stylus-event" -> on_stylus_event(ev.args[1])

\* The body of run()'s loop for event ev. failAt: how many subprocess.call
\* the handler makes before one raises; ok: whether the Popen of onboard, or
\* the os.kill of it, succeeds.
Handle(ev, failAt, ok) ==
    CASE ev.tag = "exit" ->
           Result(<<Eff("logger.info", ev.args[1], ev.args[2], 0)>>, FALSE,
                  is_tablet, onboard, launched)
      [] ev.tag = "mode-change" -> on_mode_change(failAt, ok)
      [] ev.tag = "rotate" -> on_rotate(ev.args[1], failAt)
      [] ev.tag = "stylus-event" -> on_stylus_event(ev.args[1])

\* The most subprocess.call one handler call makes.
MaxCalls == IF Len(wacom) + 1 > 2 THEN Len(wacom) + 1 ELSE 2

\* Number each action with the position of its event among the popped ones.
Stamp(eff, n) == [i \in 1..Len(eff) |-> [n |-> n] @@ eff[i]]

\* One turn of `while True` in run(): message_queue.get(), then the branch
\* of the event's tag. An exception a handler raises is caught nowhere in
\* run(): it ends the loop and the main process's run().
Dispatch ==
    /\ dpc = "loop"
    /\ message_queue # <<>>
    /\ LET ev == QueueGet(message_queue)
       IN  \E failAt \in 0..MaxCalls, ok \in BOOLEAN :
              LET r == Handle(ev, failAt, ok)
              IN  /\ message_queue' = Tail(message_queue)
                  /\ popped' = Append(popped, ev)
                  /\ effects' = effects \o Stamp(r.eff, Len(popped) + 1)
                  /\ is_tablet' = r.is_tablet
                  /\ onboard' = r.onboard
                  /\ launched' = r.launched
                  /\ dpc' = IF r.raised THEN "dead" ELSE "loop"
    /\ UNCHANGED <<spawned, wacom, devices, wpc, pushed, acpiVars, signals, lines>>

\* ---------------------------------------------------------------- watchers
\* What is left of MaxInputs for the bus and the proximity stream.
InputsLeft == MaxInputs - RecordsIn(stream) - signals - lines

\* message_queue.put((tag, args)) by watcher w.
Put(w, tag, args) ==
    /\ message_queue' = QueuePut(message_queue, Event(tag, args, w, pushed[w] + 1))
    /\ pushed' = [pushed EXCEPT ![w] = @ + 1]

\* process_wrapper's except clause, run when watcher w raises: put the exit
\* event (a put that raises is swallowed); then process_wrapper returns and
\* the process ends.
WrapperExcept(w) ==
    /\ Put(w, "exit", <<w, "uncaught-exception", ExcInfo>>)
    /\ wpc' = [wpc EXCEPT ![w] = "exited"]

\* The watcher's set-up raised nothing: it enters its loop.
GoOn(w) ==
    /\ wpc' = [wpc EXCEPT ![w] = "loop"]
    /\ UNCHANGED <<message_queue, pushed>>

\* acpi_events_watcher, before its loop: connect to /var/run/acpid.socket.
AcpiConnect ==
    /\ wpc["acpi_events_watcher"] = "setup"
    /\ \E ok \in BOOLEAN :
          IF ok THEN GoOn("acpi_events_watcher")
          ELSE WrapperExcept("acpi_events_watcher")
    /\ UNCHANGED <<dpc, spawned, handlerVars, acpiVars, signals, lines, histVars>>

\* SocketWrapper.read_line, one turn of its while loop: no b'\n' in the
\* buffer, and recv(4096) returns the next n bytes of the stream.
AcpiRecv(n) ==
    /\ wpc["acpi_events_watcher"] = "loop"
    /\ ~HasNL(buffer)
    /\ spos < Len(stream)
    /\ LET k == Min(Min(n, RecvBufSize), Len(stream) - spos)
       IN  /\ buffer' = buffer \o SubSeq(stream, spos + 1, spos + k)
           /\ spos' = spos + k
    /\ UNCHANGED <<dpc, spawned, handlerVars, message_queue, wpc, pushed, stream,
                   signals, lines, histVars>>

\* The peer closed the socket: recv() returns b"" from now on, the buffer
\* never gains a b'\n', and read_line's loop never ends.
AcpiRecvEOF ==
    /\ wpc["acpi_events_watcher"] = "loop"
    /\ ~HasNL(buffer)
    /\ spos = Len(stream)
    /\ wpc' = [wpc EXCEPT !["acpi_events_watcher"] = "spin"]
    /\ UNCHANGED <<dpc, spawned, handlerVars, message_queue, pushed, acpiVars,
                   signals, lines, histVars>>

\* recv() raises (the connection is reset): read_line and the watcher raise.
AcpiRecvError ==
    /\ wpc["acpi_events_watcher"] = "loop"
    /\ ~HasNL(buffer)
    /\ WrapperExcept("acpi_events_watcher")
    /\ UNCHANGED <<dpc, spawned, handlerVars, acpiVars, signals, lines, histVars>>

\* A read_line that forgets what follows the first b'\n'.
SplitKeepNothing(buf) ==
    [ret |-> SubSeq(buf, 1, FirstNL(buf) - 1), rest |-> <<>>]

\* ret, self.buffer = self.buffer.split(b'\n', 1)
ReadLineSplit(buf) ==
    [ret |-> SubSeq(buf, 1, FirstNL(buf) - 1),
     rest |-> SubSeq(buf, FirstNL(buf) + 1, Len(buf))]

\* read_line returns a record, and the body of acpi_events_watcher's loop
\* puts a mode-change event when the record starts with EV_TABLET_MODE.
AcpiLine ==
    /\ wpc["acpi_events_watcher"] = "loop"
    /\ HasNL(buffer)
    /\ LET sp == ReadLineSplit(buffer)
       IN  /\ buffer' = sp.rest
           /\ IF StartsWith(sp.ret, EV_TABLET_MODE)
              THEN Put("acpi_events_watcher", "mode-change", <<>>)
              ELSE UNCHANGED <<message_queue, pushed>>
    /\ UNCHANGED <<dpc, spawned, handlerVars, wpc, stream, spos, signals, lines,
                   histVars>>

\* dbus_events_watcher, before loop.run(): the bus, the proxy, the signal
\* subscription and ClaimAccelerometer.
DbusSetup ==
    /\ wpc["dbus_events_watcher"] = "setup"
    /\ \E ok \in BOOLEAN :
          IF ok THEN GoOn("dbus_events_watcher")
          ELSE WrapperExcept("dbus_events_watcher")
    /\ UNCHANGED <<dpc, spawned, handlerVars, acpiVars, signals, lines, histVars>>

\* sensor_proxy_signal_handler(source, changedProperties, ...)
DbusSignal(changedProperties) ==
    /\ wpc["dbus_events_watcher"] = "loop"
    /\ InputsLeft > 0
    /\ signals' = signals + 1
    /\ IF "AccelerometerOrientation" \notin DOMAIN changedProperties
       THEN UNCHANGED <<message_queue, pushed>>
       ELSE Put("dbus_events_watcher", "rotate",
                <<changedProperties["AccelerometerOrientation"]>>)
    /\ UNCHANGED <<dpc, spawned, handlerVars, wpc, acpiVars, lines, histVars>>

\* stylus_events_watcher, before its loop: list the xinput names, find the
\* stylus (RuntimeError when there is none), open the proximity stream.
StylusSetup ==
    /\ wpc["stylus_events_watcher"] = "setup"
    /\ \E xs \in XinputLists :
          IF Resolves(xs, "stylus") THEN GoOn("stylus_events_watcher")
          ELSE WrapperExcept("stylus_events_watcher")
    /\ UNCHANGED <<dpc, spawned, handlerVars, acpiVars, signals, lines, histVars>>

\* One turn of `for line in xinput_pipe.stdout`.
StylusLine ==
    /\ wpc["stylus_events_watcher"] = "loop"
    /\ InputsLeft > 0
    /\ lines' = lines + 1
    /\ \E line \in ProximityLines :
          IF ~line.prox
          THEN UNCHANGED <<message_queue, pushed, wpc>>
          ELSE IF Len(line.fields) < 2
          THEN WrapperExcept("stylus_events_watcher")     \* IndexError
          ELSE /\ Put("stylus_events_watcher", "stylus-event", <<line.fields[2]>>)
               /\ UNCHANGED wpc
    /\ UNCHANGED <<dpc, spawned, handlerVars, acpiVars, signals, histVars>>

\* The proximity stream ends: the for loop ends, stylus_events_watcher and
\* process_wrapper return, the process ends. Nothing is put on the queue.
StylusEOF ==
    /\ wpc["stylus_events_watcher"] = "loop"
    /\ wpc' = [wpc EXCEPT !["stylus_events_watcher"] = "returned"]
    /\ UNCHANGED <<dpc, spawned, handlerVars, message_queue, pushed, acpiVars,
                   signals, lines, histVars>>

\* ------------------------------------------------------- the specifications
Init ==
    /\ dpc = "construct"
    /\ spawned = 0
    /\ is_tablet = FALSE
    /\ wacom = <<>>
    /\ devices = NoDevices
    /\ onboard = 0
    /\ launched = 0
    /\ message_queue = <<>>
    /\ wpc = [w \in Watchers |-> "unborn"]
    /\ pushed = [w \in Watchers |-> 0]
    /\ stream \in MainStreams
    /\ spos = 0
    /\ buffer = <<>>
    /\ signals = 0
    /\ lines = 0
    /\ popped = <<>>
    /\ effects = <<>>

Next ==
    \/ Construct
    \/ Spawn
    \/ Dispatch
    \/ AcpiConnect
    \/ \E n \in MainChunkLens : AcpiRecv(n)
    \/ AcpiRecvEOF
    \/ AcpiRecvError
    \/ AcpiLine
    \/ DbusSetup
    \/ \E changedProperties \in MainPropertyChanges : DbusSignal(changedProperties)
    \/ StylusSetup
    \/ StylusLine
    \/ StylusEOF

Spec == Init /\ [][Next]_vars

\* The socket watcher alone, connected and in its loop (run() has spawned it
\* and not yet the others), on every stream of SockStreams and every way of
\* cutting the stream into recv() results.
InitSock ==
    /\ dpc = "spawn"
    /\ spawned = 1
    /\ is_tablet = FALSE
    /\ wacom = <<>>
    /\ devices = ResolvedDevices(XinputFull)
    /\ onboard = 0
    /\ launched = 0
    /\ message_queue = <<>>
    /\ wpc = [w \in Watchers |-> IF w = "acpi_events_watcher" THEN "loop" ELSE "unborn"]
    /\ pushed = [w \in Watchers |-> 0]
    /\ stream \in SockStreams
    /\ spos = 0
    /\ buffer = <<>>
    /\ signals = 0
    /\ lines = 0
    /\ popped = <<>>
    /\ effects = <<>>

NextSock ==
    \/ \E n \in 1..Min(RecvBufSize, Len(stream)) : AcpiRecv(n)
    \/ AcpiLine
    \/ AcpiRecvEOF

SpecSock == InitSock /\ [][NextSock]_vars

\* The orientation path alone: run() and the bus watcher, over every
\* orientation value (the other two watchers, spawned, have not yet got past
\* their first statement, and the socket delivers nothing).
InitRotate == Init /\ stream = <<>>

NextRotate ==
    \/ Construct
    \/ Spawn
    \/ Dispatch
    \/ DbusSetup
    \/ \E changedProperties \in PropertyChanges : DbusSignal(changedProperties)

SpecRotate == InitRotate /\ [][NextRotate]_vars

\* The mode path alone: run() and the socket watcher, on a stream of
\* MaxToggles mode-toggle records (the other two watchers, spawned, have not
\* yet got past their first statement).
InitMode ==
    /\ dpc = "construct"
    /\ spawned = 0
    /\ is_tablet = FALSE
    /\ wacom = <<>>
    /\ devices = NoDevices
    /\ onboard = 0
    /\ launched = 0
    /\ message_queue = <<>>
    /\ wpc = [w \in Watchers |-> "unborn"]
    /\ pushed = [w \in Watchers |-> 0]
    /\ stream = Toggles(MaxToggles)
    /\ spos = 0
    /\ buffer = <<>>
    /\ signals = 0
    /\ lines = 0
    /\ popped = <<>>
    /\ effects = <<>>

NextMode ==
    \/ Construct
    \/ Spawn
    \/ Dispatch
    \/ AcpiConnect
    \/ \E n \in MainChunkLens : AcpiRecv(n)
    \/ AcpiLine

SpecMode == InitMode /\ [][NextMode]_vars

\* run()'s loop alone, on every queue content of up to MaxFed events: the
\* three kinds the watchers put and, for each watcher name, an 'exit' event
\* whose third argument is a value that pickles. The handler is built and the
\* three watchers are spawned; none of them takes a step.
ExitDetail == "detail"

FedEvents ==
    { Event("exit", <<w, "uncaught-exception", ExitDetail>>, w, 0) : w \in Watchers }
    \cup { Event("mode-change", <<>>, "acpi_events_watcher", 0),
           Event("rotate", <<"left-up">>, "dbus_events_watcher", 0),
           Event("stylus-event", <<"in">>, "stylus_events_watcher", 0) }

\* The queue holding the events of es: each is numbered among the events of
\* its own watcher.
Fed(es) ==
    [i \in 1..Len(es) |->
        [es[i] EXCEPT !.seq = Cardinality({j \in 1..i : es[j].src = es[i].src})]]

FedQueues == UNION {{Fed(es) : es \in [1..n -> FedEvents]} : n \in 0..MaxFed}

InitDispatch ==
    /\ dpc = "loop"
    /\ spawned = Len(WatcherNames)
    /\ is_tablet = FALSE
    /\ wacom \in WacomLists
    /\ devices = ResolvedDevices(XinputFull)
    /\ onboard = 0
    /\ launched = 0
    /\ message_queue \in FedQueues
    /\ wpc = [w \in Watchers |->
                IF \E i \in 1..Len(message_queue) :
                      message_queue[i].tag = "exit" /\ message_queue[i].src = w
                THEN "exited" ELSE "loop"]
    /\ pushed = [w \in Watchers |->
                   Cardinality({i \in 1..Len(message_queue) : message_queue[i].src = w})]
    /\ stream = <<>>
    /\ spos = 0
    /\ buffer = <<>>
    /\ signals = 0
    /\ lines = 0
    /\ popped = <<>>
    /\ effects = <<>>

NextDispatch == Dispatch

SpecDispatch == InitDispatch /\ [][NextDispatch]_vars

\* ------------------------------------------------------------------ claims
\* Positions of the popped events with the given tag.
Popped(tag) == {i \in 1..Len(popped) : popped[i].tag = tag}

\* Whether the handling of the n-th popped event raised: it is the last one
\* popped and run() has ended.
RaisedAt(n) == dpc = "dead" /\ n = Len(popped)

\* The actions made while the n-th popped event was handled, in order.
EffectsOf(n) == SelectSeq(effects, LAMBDA e : e.n = n)

\* C1: after N mode-change events have been processed, is_tablet is False
\* (laptop) when N is even and True (tablet) when N is odd.
C1_ModeParity == is_tablet = (Cardinality(Popped("mode-change")) % 2 = 1)

\* C1 witness: two mode-change events processed, and the mode is laptop again.
C1_Witness == Cardinality(Popped("mode-change")) = 2 /\ ~is_tablet

\* C2: a failure while one event is handled does not keep the events queued
\* after it from being popped: run()'s loop is never ended with events left
\* in the queue.
C2_FailureKeepsDispatching == ~(dpc = "dead" /\ message_queue # <<>>)

\* The exit events with watcher name w that reached the queue, popped or not.
ExitEvents(w) ==
    SelectSeq(popped \o message_queue,
              LAMBDA e : e.tag = "exit" /\ e.args[1] = w)

\* C3: a watcher that raised has exactly one exit event, with its name and
\* the reason uncaught-exception, delivered to the queue.
C3_OneExitPerFailure ==
    \A w \in Watchers :
        wpc[w] = "exited" =>
            /\ Len(ExitEvents(w)) = 1
            /\ ExitEvents(w)[1].args[2] = "uncaught-exception"

\* The events of watcher w's own loop that reached the queue, popped ones
\* first, in pop and queue order.
EventsFrom(w) ==
    SelectSeq(popped \o message_queue, LAMBDA e : e.src = w /\ e.tag # "exit")

\* How many events watcher w's own loop has put.
OwnPuts(w) == pushed[w] - (IF wpc[w] = "exited" THEN 1 ELSE 0)

\* C4: the events one watcher puts are popped in the order it put them, none
\* lost and none twice: the popped and the queued events of a watcher are
\* its puts 1, 2, 3, ... in that order, whatever the other watchers put
\* between them.
C4_PerWatcherOrder ==
    \A w \in Watchers :
        /\ Len(EventsFrom(w)) = OwnPuts(w)
        /\ \A i \in 1..Len(EventsFrom(w)) : EventsFrom(w)[i].seq = i

\* C4 witness: two events of one watcher were popped with an event of
\* another watcher popped between them.
C4_Witness ==
    \E i, j, k \in 1..Len(popped) :
        /\ i < j /\ j < k
        /\ popped[i].src = popped[k].src
        /\ popped[j].src # popped[i].src

\* The complete records of byte stream s that start with EV_TABLET_MODE.
RECURSIVE MatchingRecords(_)
MatchingRecords(s) ==
    IF ~HasNL(s) THEN 0
    ELSE (IF StartsWith(SubSeq(s, 1, FirstNL(s) - 1), EV_TABLET_MODE) THEN 1 ELSE 0)
         + MatchingRecords(SubSeq(s, FirstNL(s) + 1, Len(s)))

\* C5: however the stream is cut into recv() results, the socket watcher has
\* put one mode-change event for each matching record among the complete
\* records it has taken from its buffer, and nothing else; what it has not
\* yet taken is in the buffer, byte for byte; and once no b'\n' is left in
\* the buffer the count is that of all the bytes received.
C5_OneModeChangePerRecord ==
    LET taken == spos - Len(buffer)
    IN  /\ taken >= 0
        /\ buffer = SubSeq(stream, taken + 1, spos)
        /\ taken > 0 => stream[taken] = NL
        /\ pushed["acpi_events_watcher"] = MatchingRecords(SubSeq(stream, 1, taken))
        /\ Len(message_queue) = pushed["acpi_events_watcher"]
        /\ \A i \in 1..Len(message_queue) :
              /\ message_queue[i].tag = "mode-change"
              /\ message_queue[i].seq = i
        /\ ~HasNL(buffer) =>
              pushed["acpi_events_watcher"] = MatchingRecords(SubSeq(stream, 1, spos))

\* C5 witness: a recv() ended inside the prefix of the second matching
\* record, and both records were recognised once the rest had arrived.
C5_Witness ==
    /\ pushed["acpi_events_watcher"] = 2
    /\ MatchingRecords(stream) = 2
    /\ Len(buffer) > 0
    /\ Len(buffer) < Len(EV_TABLET_MODE)
    /\ StartsWith(EV_TABLET_MODE, buffer)

\* The two tables of the claim.
C6_Display(o) ==
    CASE o = "right-up" -> "right" [] o = "normal" -> "normal"
      [] o = "bottom-up" -> "inverted" [] o = "left-up" -> "left"

C6_Stylus(o) ==
    CASE o = "right-up" -> "cw" [] o = "normal" -> "none"
      [] o = "bottom-up" -> "half" [] o = "left-up" -> "ccw"

\* The rotation actions among a sequence of actions.
Rotations(effs) == SelectSeq(effs, LAMBDA e : e.cmd \in {"xrandr", "xsetwacom"})

\* The rotation actions the claim expects of on_rotate(o).
C6_Expected(o) ==
    <<[cmd |-> "xrandr", dev |-> "", val |-> C6_Display(o)]>> \o
    [i \in 1..Len(wacom) |->
        [cmd |-> "xsetwacom", dev |-> wacom[i], val |-> C6_Stylus(o)]]

Bare(effs) == [i \in 1..Len(effs) |-> [cmd |-> effs[i].cmd, dev |-> effs[i].dev, val |-> effs[i].val]]

\* C6: for each of the four orientations, on_rotate sets the display to the
\* mapped value and then each xsetwacom device, once, to the mapped value,
\* and makes no other rotation action; a call that a failing subprocess.call
\* cut short has made the first of these actions and no other. No other
\* event makes a rotation action.
C6_RotateTables ==
    \A n \in 1..Len(popped) :
        LET made == Bare(Rotations(EffectsOf(n)))
        IN  IF popped[n].tag = "rotate" /\ popped[n].args[1] \in
                   {"normal", "right-up", "bottom-up", "left-up"}
            THEN LET want == C6_Expected(popped[n].args[1])
                 IN  /\ Len(made) <= Len(want)
                     /\ made = SubSeq(want, 1, Len(made))
                     /\ ~RaisedAt(n) => made = want
            ELSE made = <<>>

\* C6 witness: on_rotate('bottom-up') and on_rotate('right-up') have both
\* returned, with two xsetwacom devices.
C6_Witness ==
    /\ Len(wacom) = 2
    /\ \E n, m \in Popped("rotate") :
          /\ popped[n].args[1] = "bottom-up" /\ ~RaisedAt(n)
          /\ popped[m].args[1] = "right-up" /\ ~RaisedAt(m)

\* The actions the claim's scenario expects, each with the position of its
\* event: the rotation to left-up, the entry into tablet mode (the on-screen
\* keyboard started, or the failure to start it logged), the stylus event.
C7_ScenarioEffects(keyboard) ==
    <<[n |-> 1, cmd |-> "logger.debug", dev |-> "", val |-> "on rotate"],
      [n |-> 1, cmd |-> "xrandr", dev |-> "", val |-> "left"]>> \o
    [i \in 1..Len(wacom) |->
        [n |-> 1, cmd |-> "xsetwacom", dev |-> wacom[i], val |-> "ccw"]] \o
    <<[n |-> 2, cmd |-> "logger.debug", dev |-> "", val |-> "on tablet mode"],
      [n |-> 2, cmd |-> "xinput-disable", dev |-> devices.trackpoint, val |-> ""],
      [n |-> 2, cmd |-> "xinput-disable", dev |-> devices.touchpad, val |-> ""],
      keyboard,
      [n |-> 3, cmd |-> "logger.debug", dev |-> "", val |-> "in"]>>

C7_Scenario ==
    /\ Len(popped) = 3
    /\ popped[1].tag = "rotate" /\ popped[1].args = <<"left-up">>
    /\ popped[2].tag = "mode-change"
    /\ popped[3].tag = "stylus-event" /\ popped[3].args = <<"in">>
    /\ dpc = "loop"

Stamped(effs) ==
    [i \in 1..Len(effs) |->
        [n |-> effs[i].n, cmd |-> effs[i].cmd, dev |-> effs[i].dev, val |-> effs[i].val]]

\* C7: the actions of the popped events are made in pop order, those of one
\* event all before those of the next; and when run() has popped
\* rotate(left-up), mode-change, stylus-event(in) from the initial state and
\* no call raised, the actions are: display to left, every xsetwacom device
\* to ccw, then is_tablet True with the two pointer devices disabled and the
\* keyboard launched, then the stylus status in logged.
C7_EffectsInPopOrder ==
    /\ \A i \in 1..Len(effects) : effects[i].n \in 1..Len(popped)
    /\ \A i, j \in 1..Len(effects) : i < j => effects[i].n <= effects[j].n
    /\ C7_Scenario =>
          /\ is_tablet
          /\ \/ Stamped(effects) = C7_ScenarioEffects(
                    [n |-> 2, cmd |-> "onboard-start", dev |-> "", val |-> ""])
             \/ Stamped(effects) = C7_ScenarioEffects(
                    [n |-> 2, cmd |-> "logger.warn", dev |-> "",
                     val |-> "exception while starting onboard"])

\* C7 witness: the scenario has run, with two xsetwacom devices and the
\* keyboard started.
C7_Witness == C7_Scenario /\ Len(wacom) = 2 /\ onboard = 1

\* C8: a watcher process that has ended, because its function returned or
\* because it raised, has had an exit event with its name put in the queue.
C8_EveryEndHasExitEvent ==
    \A w \in Watchers :
        wpc[w] \in {"returned", "exited"} => Len(ExitEvents(w)) >= 1

\* C9: no action-surface failure inside on_mode_change ends run(): the
\* handling of a mode-change event never raises.
C9_ModeChangeNeverFatal == \A n \in Popped("mode-change") : ~RaisedAt(n)

\* The on_tablet_mode and on_laptop_mode calls made so far, in order (each
\* begins by logging its name).
ModeCalls ==
    SelectSeq(effects,
              LAMBDA e : e.cmd = "logger.debug" /\ e.val \in {"on tablet mode", "on laptop mode"})

\* C10: each mode-change event popped has flipped is_tablet and then called
\* exactly one of on_tablet_mode and on_laptop_mode, the one of the new
\* mode: the calls are one per mode-change event, in order, on_tablet_mode
\* first and then in turn, and is_tablet is the mode of the last call.
C10_ModeCallsAlternate ==
    /\ Len(ModeCalls) = Cardinality(Popped("mode-change"))
    /\ \A i \in 1..Len(ModeCalls) :
          /\ popped[ModeCalls[i].n].tag = "mode-change"
          /\ \A j \in 1..(i - 1) : ModeCalls[j].n < ModeCalls[i].n
          /\ ModeCalls[i].val =
                 IF i % 2 = 1 THEN "on tablet mode" ELSE "on laptop mode"
    /\ Len(ModeCalls) > 0 =>
          (is_tablet <=> ModeCalls[Len(ModeCalls)].val = "on tablet mode")

\* C10 witness: three mode-change events handled: tablet, laptop, tablet.
C10_Witness == Len(ModeCalls) = 3 /\ is_tablet /\ dpc = "loop"

\* The handler state and the state of run() are the same before and after
\* the step.
HandlerUntouched == UNCHANGED <<handlerVars, dpc>>

\* The step pops an event with the given tag.
Pops(tag) ==
    /\ Len(popped') = Len(popped) + 1
    /\ popped'[Len(popped')].tag = tag

\* C11: processing an 'exit' event calls no handler method and leaves
\* is_tablet and every handler field as they were: the only thing done for the
\* n-th popped event, when it is an 'exit' event, is one logger.info of the
\* watcher's name and the reason.
C11_ExitOnlyLogs ==
    /\ [](\A n \in Popped("exit") :
             EffectsOf(n) = <<[n |-> n] @@ Eff("logger.info", popped[n].args[1],
                                                popped[n].args[2], 0)>>)
    /\ [][Pops("exit") => HandlerUntouched]_vars

\* C11 witness: an 'exit' event has been processed after a mode-change put
\* the handler in tablet mode with the keyboard running, and the loop goes on.
C11_Witness ==
    /\ \E n \in Popped("exit") : \E m \in Popped("mode-change") : m < n
    /\ is_tablet /\ onboard # 0 /\ dpc = "loop"

\* Positions n such that the n-th and the (n+1)-th event of the sequence are
\* 'exit' events with the same watcher name.
ExitTwice(q) ==
    {n \in 1..(Len(q) - 1) :
        /\ q[n].tag = "exit" /\ q[n + 1].tag = "exit"
        /\ q[n].args[1] = q[n + 1].args[1]}

\* The log entries made for 'exit' events, in order.
ExitLog == SelectSeq(effects, LAMBDA e : e.cmd = "logger.info")

\* C12: 'exit' events are neither merged nor dropped by run(): a step taken
\* with an 'exit' event at the head of the queue pops that one event and
\* leaves the rest of the queue as it was, and of two 'exit' events with the
\* same name popped one after the other each has its own log entry, the
\* earlier event's entry first.
C12_ExitNeverMerged ==
    /\ [](\A n \in ExitTwice(popped) :
             \E i \in 1..(Len(ExitLog) - 1) :
                /\ ExitLog[i].n = n /\ ExitLog[i].dev = popped[n].args[1]
                /\ ExitLog[i + 1].n = n + 1 /\ ExitLog[i + 1].dev = popped[n + 1].args[1])
    /\ [](Len(ExitLog) = Cardinality(Popped("exit")))
    /\ [][(message_queue # <<>> /\ message_queue[1].tag = "exit")
            => /\ popped' = Append(popped, message_queue[1])
               /\ message_queue' = Tail(message_queue)]_vars

\* C12 witness: two 'exit' events with the same name were in the queue one
\* after the other, both have been popped and both are logged.
C12_Witness ==
    /\ ExitTwice(popped) # {}
    /\ Len(ExitLog) >= 2
    /\ dpc = "loop"

\* The log entry a handler method makes on entry, for an event with this tag.
EntryLogs(ev) ==
    CASE ev.tag = "mode-change" -> {"on tablet mode", "on laptop mode"}
      [] ev.tag = "rotate" -> {"on rotate"}
      [] ev.tag = "stylus-event" -> {ev.args[1]}
      [] OTHER -> {}

\* The handler entries made while the n-th popped event was handled.
Entries(n) == SelectSeq(EffectsOf(n), LAMBDA e : e.cmd = "logger.debug")

\* The step is one of run(): the construction of the handler or one turn of
\* the loop.
RunStep ==
    \/ dpc = "construct"
    \/ dpc = "loop" /\ Len(popped') = Len(popped) + 1

\* The step is one of a watcher process (its set-up, its loop, or the
\* wrapper's except clause).
WatcherStep ==
    \/ \E w \in Watchers : wpc[w] # "unborn" /\ wpc'[w] # wpc[w]
    \/ pushed' # pushed
    \/ <<acpiVars, signals, lines>>' # <<acpiVars, signals, lines>>

\* C13: handler methods are called by run()'s loop only, one call for each
\* popped mode-change, rotate or stylus-event and none for anything else: the
\* n-th popped event has exactly one handler entry, that of its own kind, made
\* first; the handler's actions and fields change in steps of run() only; and
\* no step of a watcher or of process_wrapper changes is_tablet, the device
\* names or the keyboard handle.
C13_HandlerCalledByLoopOnly ==
    /\ [](\A n \in 1..Len(popped) :
             IF popped[n].tag = "exit" THEN Len(Entries(n)) = 0
             ELSE /\ Len(Entries(n)) = 1
                  /\ EffectsOf(n)[1].cmd = "logger.debug"
                  /\ EffectsOf(n)[1].val \in EntryLogs(popped[n]))
    /\ [][(effects' # effects \/ handlerVars' # handlerVars) => RunStep]_vars
    /\ [][WatcherStep => UNCHANGED <<handlerVars, effects>>]_vars

\* C13 witness: all three watchers have put events while the loop ran, and a
\* mode-change, a rotate and a stylus-event have each been handled.
C13_Witness ==
    /\ \A w \in Watchers : pushed[w] > 0
    /\ Popped("mode-change") # {} /\ Popped("rotate") # {} /\ Popped("stylus-event") # {}
    /\ Len(effects) >= 3

\* The step puts nothing on the queue and ends no watcher.
Ignored == UNCHANGED <<message_queue, pushed, wpc>>

\* The step puts one event with the given tag, delivered to the queue, and
\* ends no watcher.
PutsOne(tag) ==
    /\ Len(message_queue') = Len(message_queue) + 1
    /\ SubSeq(message_queue', 1, Len(message_queue)) = message_queue
    /\ message_queue'[Len(message_queue')].tag = tag
    /\ UNCHANGED wpc

\* C14: input a watcher does not recognise is dropped: a socket record that
\* does not start with EV_TABLET_MODE, a PropertiesChanged signal and a line of
\* the proximity stream each either put the one event they stand for or put
\* nothing, and none of them ends the watcher that read it.
C14_MalformedIgnored ==
    [][/\ (HasNL(buffer) /\ buffer' # buffer /\ spos' = spos
             /\ ~StartsWith(ReadLineSplit(buffer).ret, EV_TABLET_MODE)) => Ignored
       /\ signals' # signals => (Ignored \/ PutsOne("rotate"))
       /\ lines' # lines => (Ignored \/ PutsOne("stylus-event"))]_vars

\* C15: is_tablet changes only in the handling of a mode-change event: the
\* handling of a rotate, a stylus-event or an exit event, the construction and
\* the spawns of run(), and every step of a watcher or of process_wrapper leave
\* it as it was.
C15_ModeChangedByModeChangeOnly ==
    [][is_tablet' # is_tablet => (dpc = "loop" /\ Pops("mode-change"))]_vars

\* C15 witness: a mode-change made the mode tablet, then a rotate and a
\* stylus-event were handled and a watcher ended, and the mode is still tablet.
C15_Witness ==
    /\ Len(popped) = 3
    /\ popped[1].tag = "mode-change"
    /\ {popped[2].tag, popped[3].tag} = {"rotate", "stylus-event"}
    /\ \E w \in Watchers : wpc[w] = "exited"
    /\ is_tablet

\* C16: every event that has reached the queue is well-formed: a rotate
\* event's orientation is one of normal, right-up, bottom-up and left-up, and
\* a stylus-event's status is in or out, whatever the bus and the proximity
\* stream supply.
C16_EventsWellFormed ==
    \A i \in 1..Len(message_queue) :
        LET ev == message_queue[i]
        IN  /\ ev.tag = "rotate" => ev.args[1] \in DOMAIN xrandr_orientation_map
            /\ ev.tag = "stylus-event" => ev.args[1] \in {"in", "out"}

\* C17: run()'s loop does not end of its own accord, whatever events are
\* queued: once in the loop, run() stays in it, so that every event put on
\* the queue is popped when the loop is given its turns.
C17_LoopNeverEnds == [][dpc = "loop" => dpc' = "loop"]_vars

\* No watcher has been spawned, nothing has been put on the queue and
\* nothing has been popped or done.
NothingStarted ==
    /\ spawned = 0
    /\ \A w \in Watchers : wpc[w] = "unborn" /\ pushed[w] = 0
    /\ message_queue = <<>>
    /\ popped = <<>>
    /\ effects = <<>>

\* C18: the handler is built before any watcher is started, and a device
\* role that initialize() cannot resolve makes run() fail there: while the
\* handler is not built nothing has started; a watcher that exists was spawned
\* with every role resolved; and after a failed construction run() has
\* ended with no watcher spawned, no event queued and none dispatched.
C18_InitBeforeWatchers ==
    /\ dpc = "construct" => NothingStarted
    /\ (dpc # "construct" /\ devices = NoDevices) => dpc = "startup_failed"
    /\ dpc = "startup_failed" => (NothingStarted /\ devices = NoDevices)
    /\ (\E w \in Watchers : wpc[w] # "unborn") =>
          \A i \in DOMAIN devices : devices[i] # ""

\* C18 witness: initialize() found a role missing and run() has failed.
C18_Witness == dpc = "startup_failed" /\ devices = NoDevices /\ spawned = 0

\* The action is an attempt to start the keyboard, successful or not.
IsLaunch(e) ==
    e.cmd = "onboard-start" \/ e.val = "exception while starting onboard"

\* C19: on_laptop_mode signals only the keyboard process that the tablet-mode
\* entry just before it started: every SIGTERM sent goes to the pid of the
\* latest attempt to start the keyboard, that attempt succeeded, and no
\* SIGTERM was sent between the two; so no pid is signalled after a failed
\* start or a second time.
C19_KillsOnlyLatestLaunch ==
    \A i \in 1..Len(effects) :
        effects[i].cmd = "onboard-kill" =>
            \E j \in 1..(i - 1) :
                /\ effects[j].cmd = "onboard-start"
                /\ effects[j].pid = effects[i].pid
                /\ \A k \in (j + 1)..(i - 1) :
                      ~IsLaunch(effects[k]) /\ effects[k].cmd # "onboard-kill"

\* The watcher process has ended.
Ended(w) == wpc[w] \in {"exited", "returned"}

\* C20: each watcher is spawned once, in the order of run()'s three calls,
\* and never started again; process_wrapper makes its exit put at most once
\* per watcher, so at most one exit event per name, three in all, is ever in
\* the queue; and once a watcher has ended it puts nothing more.
C20_SpawnedOnceOneExit ==
    /\ [](/\ spawned <= Len(WatcherNames)
          /\ \A i \in 1..Len(WatcherNames) :
                (wpc[WatcherNames[i]] # "unborn") = (i <= spawned)
          /\ \A w \in Watchers :
                /\ Len(ExitEvents(w)) <= 1
                /\ pushed[w] <= Len(EventsFrom(w)) + 1
                /\ pushed[w] > Len(EventsFrom(w)) => wpc[w] = "exited")
    /\ [][\A w \in Watchers :
             /\ wpc'[w] = "setup" => wpc[w] \in {"unborn", "setup"}
             /\ Ended(w) => (wpc'[w] = wpc[w] /\ pushed'[w] = pushed[w])]_vars

\* C20 witness: all three watchers have been spawned and have ended with an
\* exception, each after its wrapper's one exit put, the socket watcher after
\* putting an event of its own.
C20_Witness ==
    /\ spawned = Len(WatcherNames)
    /\ \A w \in Watchers : wpc[w] = "exited" /\ pushed[w] >= 1
    /\ pushed["acpi_events_watcher"] >= 2

====
